---- MODULE Spec2Model ----
(***************************************************************************)
(* Nested route matching and route generation of routing_utils             *)
(* (src/routing_utils/src/nested/mod.rs).                                  *)
(*                                                                         *)
(* A path is a sequence of one-character strings.  A NestedRoute is a      *)
(* record [segments, children, data, view]; its children are a sequence    *)
(* of NestedRoute (the sibling tuple), the empty sequence being the unit   *)
(* tuple () of a leaf.  NestedRoute::match_nested and                      *)
(* NestedRoute::generate_routes are translated from mod.rs.  The segment   *)
(* matchers (PossibleRouteMatch) and the sibling tuples                    *)
(* (nested/tuples.rs) are not part of mod.rs; they are modelled from the   *)
(* written specification of the crate.                                     *)
(***************************************************************************)
EXTENDS Integers, Sequences, FiniteSets, TLC

VARIABLES route, strictLeaf, path, pc, result, siblings, cur, depth, generated

vars == <<route, strictLeaf, path, pc, result, siblings, cur, depth, generated>>

\* ------------------------------------------------------------------ bounds
MaxPathLen == 4
MaxNodes == 3
MaxSiblingNodes == 2
MaxGenNodes == 5

\* ----------------------------------------------------------------- helpers
Sep == "/"
Chars == {Sep, "a", "b"}

None == [some |-> FALSE]
Some(v) == [some |-> TRUE, val |-> v]

Drop(s, n) == SubSeq(s, n + 1, Len(s))
Take(s, n) == SubSeq(s, 1, n)

IsPrefix(p, s) == Len(p) <= Len(s) /\ Take(s, Len(p)) = p
IsSuffix(p, s) == Len(p) <= Len(s) /\ Drop(s, Len(s) - Len(p)) = p

RECURSIVE Flatten(_)
Flatten(ss) == IF ss = <<>> THEN <<>> ELSE Head(ss) \o Flatten(Tail(ss))

Paths == UNION {[1..n -> Chars] : n \in 0..MaxPathLen}

\* ---------------------------------------------------- segment patterns
\* One declared segment: static text, a named parameter, a splat, or unit.
StaticSegment(text) == [kind |-> "static", arg |-> text]
ParamSegment(name) == [kind |-> "param", arg |-> name]
WildcardSegment(name) == [kind |-> "splat", arg |-> name]
UnitSegment == [kind |-> "unit", arg |-> <<>>]

PartialPathMatch(remaining, params, matched) ==
    [remaining |-> remaining, params |-> params, matched |-> matched]

\* Length of the path component that starts at index i (up to the next
\* separator or the end of the path).
RECURSIVE ComponentLen(_, _)
ComponentLen(p, i) ==
    IF i > Len(p) \/ p[i] = Sep THEN 0 ELSE 1 + ComponentLen(p, i + 1)

\* test of one segment pattern against a path prefix.
TestSegment(seg, p) ==
    CASE seg.kind = "unit" -> Some(PartialPathMatch(p, <<>>, <<>>))
      [] seg.kind = "static" ->
            LET n == Len(seg.arg) + 1
            IN  IF Len(p) >= n /\ p[1] = Sep /\ SubSeq(p, 2, n) = seg.arg
                THEN Some(PartialPathMatch(Drop(p, n), <<>>, Take(p, n)))
                ELSE None
      [] seg.kind = "param" ->
            IF p # <<>> /\ p[1] = Sep /\ ComponentLen(p, 2) > 0
            THEN LET n == 1 + ComponentLen(p, 2)
                 IN  Some(PartialPathMatch(Drop(p, n),
                                           << <<seg.arg, SubSeq(p, 2, n)>> >>,
                                           Take(p, n)))
            ELSE None
      [] seg.kind = "splat" ->
            LET off == IF p # <<>> /\ p[1] = Sep THEN 1 ELSE 0
            IN  Some(PartialPathMatch(<<>>, << <<seg.arg, Drop(p, off)>> >>, p))

\* test of a tuple of segment patterns: each pattern consumes a prefix of
\* what the previous one left.
RECURSIVE Segments_test(_, _)
Segments_test(segments, p) ==
    IF segments = <<>> THEN Some(PartialPathMatch(p, <<>>, <<>>))
    ELSE LET first == TestSegment(Head(segments), p)
         IN  IF ~first.some THEN None
             ELSE LET rest == Segments_test(Tail(segments), first.val.remaining)
                  IN  IF ~rest.some THEN None
                      ELSE Some(PartialPathMatch(
                                  rest.val.remaining,
                                  first.val.params \o rest.val.params,
                                  first.val.matched \o rest.val.matched))

\* PathSegment values contributed to route generation.
PathSegmentOf(seg) ==
    CASE seg.kind = "unit" -> [tag |-> "Unit", arg |-> <<>>]
      [] seg.kind = "static" -> [tag |-> "Static", arg |-> seg.arg]
      [] seg.kind = "param" -> [tag |-> "Param", arg |-> seg.arg]
      [] seg.kind = "splat" -> [tag |-> "Splat", arg |-> seg.arg]

PathSegment_Unit == [tag |-> "Unit", arg |-> <<>>]

Segments_generate_path(segments, out) ==
    out \o [i \in 1..Len(segments) |-> PathSegmentOf(segments[i])]

\* ------------------------------------------------------------ route trees
NestedRoute(segments, children) ==
    [segments |-> segments, children |-> children,
     data |-> "data", view |-> "view"]

MatchSegments ==
    { <<StaticSegment(<<"a">>)>>,
      <<ParamSegment(<<"x">>)>>,
      <<UnitSegment>>,
      <<ParamSegment(<<"x">>), WildcardSegment(<<"s">>)>> }

GenSegments ==
    { <<StaticSegment(<<"a">>)>>,
      <<UnitSegment>>,
      <<UnitSegment, ParamSegment(<<"x">>)>> }

RECURSIVE RoutesOfSize(_, _), ChildrenOfSize(_, _)
\* The route nodes made of exactly n NestedRoute values.
RoutesOfSize(n, segs) ==
    IF n = 0 THEN {}
    ELSE {NestedRoute(s, c) : s \in segs, c \in ChildrenOfSize(n - 1, segs)}
\* The sibling tuples made of exactly n NestedRoute values in total.
ChildrenOfSize(n, segs) ==
    IF n = 0 THEN {<<>>}
    ELSE UNION { { <<x>> \o rest : x \in RoutesOfSize(k, segs),
                                   rest \in ChildrenOfSize(n - k, segs) }
                 : k \in 1..n }

Routes(max, segs) == UNION {RoutesOfSize(n, segs) : n \in 1..max}

\* ---------------------------------------------------------- match values
\* The match of the unit tuple (): no params, nothing matched, no child.
UnitMatch(id) ==
    [kind |-> "unit", id |-> id, matched |-> <<>>, params |-> <<>>,
     child |-> <<>>, view |-> "unit"]

NestedMatch(id, matched, params, child, view) ==
    [kind |-> "nested", id |-> id, matched |-> matched, params |-> params,
     child |-> child, view |-> view]

as_id(m) == m.id
as_matched(m) == m.matched
to_params(m) == m.params
to_view(m) == m.view

NestedMatch_into_child_NoneAtLeaf(m) ==
    IF m.child.kind = "unit" THEN None ELSE Some(m.child)

\* mod.rs:67-69
NestedMatch_into_child(m) == Some(m.child)
Unit_into_child(m) == None
into_child(m) ==
    IF m.kind = "nested" THEN NestedMatch_into_child(m) ELSE Unit_into_child(m)

\* -------------------------------------------------------------- matching
MatchResult(res, remaining) == [res |-> res, remaining |-> remaining]

FullyConsumed_Unchecked(remaining) == TRUE

\* mod.rs:116
FullyConsumed(remaining) == remaining = <<>> \/ remaining = <<Sep>>

ChainParams_InnerFirst(params, inner_params) == inner_params \o params

\* mod.rs:123
ChainParams(params, inner_params) == params \o inner_params

\* The match stores a constant id instead of the one it returns.
Matched_ConstId(id, matched, params, inner, view, remaining) ==
    MatchResult(
        Some([id |-> id,
              match |-> NestedMatch(<<0>>, matched,
                                    ChainParams(params, to_params(inner)),
                                    inner, view)]),
        remaining)

\* The match stores everything matched so far, not its own part only.
Matched_Cumulative(id, matched, params, inner, view, remaining) ==
    MatchResult(
        Some([id |-> id,
              match |-> NestedMatch(id, matched \o as_matched(inner),
                                    ChainParams(params, to_params(inner)),
                                    inner, view)]),
        remaining)

\* mod.rs:117-129
Matched(id, matched, params, inner, view, remaining) ==
    MatchResult(
        Some([id |-> id,
              match |-> NestedMatch(id, matched,
                                    ChainParams(params, to_params(inner)),
                                    inner, view)]),
        remaining)

NoMatch_Remaining(p, remaining) == MatchResult(None, remaining)

\* mod.rs:135; the closure's remaining is in scope and is not returned.
NoMatch(p, remaining) == MatchResult(None, p)

\* match_nested of the unit tuple (): the leaf.  It assigns the id of the
\* position it sits at and hands its path back as the remainder.  The
\* written specification lets the leaf succeed "only when the path passed
\* to it is fully consumed"; it can be read as a test made by the unit
\* tuple itself (strictLeaf) or as the test the owning node makes at
\* mod.rs:116 on what the unit tuple hands back.  Both are modelled.
Unit_match_nested(p, pos) ==
    IF strictLeaf /\ p # <<>> /\ p # <<Sep>>
    THEN [res |-> None, remaining |-> p, attempts |-> <<>>]
    ELSE [res |-> Some([id |-> pos, match |-> UnitMatch(pos)]),
          remaining |-> p, attempts |-> <<>>]

RECURSIVE NestedRoute_match_nested(_, _, _), TryAlternatives(_, _, _, _, _)

\* The sibling tuple: alternative i is tried on the path the failed
\* alternative i - 1 handed back; the first success is the result.
TryAlternatives(children, i, p, pos, attempts) ==
    IF i > Len(children)
    THEN [res |-> None, remaining |-> p, attempts |-> attempts]
    ELSE LET r == NestedRoute_match_nested(children[i], p, pos \o <<i>>)
             log == Append(attempts, [alt |-> i, path |-> p])
         IN  IF r.res.some
             THEN [res |-> r.res, remaining |-> r.remaining, attempts |-> log]
             ELSE TryAlternatives(children, i + 1, r.remaining, pos, log)

Children_match_nested(children, p, pos) ==
    IF children = <<>> THEN Unit_match_nested(p, pos)
    ELSE TryAlternatives(children, 1, p, pos, <<>>)

\* The remainder returned is the one the segments left, not the children's.
NestedRoute_match_nested_OwnRemaining(self, p, pos) ==
    LET test == Segments_test(self.segments, p)
    IN  IF ~test.some THEN NoMatch(p, p)
        ELSE LET inner == Children_match_nested(self.children,
                                                test.val.remaining, pos)
             IN  IF ~inner.res.some THEN NoMatch(p, inner.remaining)
                 ELSE IF FullyConsumed(inner.remaining)
                      THEN Matched(inner.res.val.id, test.val.matched,
                                   test.val.params, inner.res.val.match,
                                   self.view, test.val.remaining)
                      ELSE NoMatch(p, inner.remaining)

\* mod.rs:99-136
NestedRoute_match_nested(self, p, pos) ==
    LET test == Segments_test(self.segments, p)
    IN  IF ~test.some THEN NoMatch(p, p)
        ELSE LET inner == Children_match_nested(self.children,
                                                test.val.remaining, pos)
             IN  IF ~inner.res.some THEN NoMatch(p, inner.remaining)
                 ELSE IF FullyConsumed(inner.remaining)
                      THEN Matched(inner.res.val.id, test.val.matched,
                                   test.val.params, inner.res.val.match,
                                   self.view, inner.remaining)
                      ELSE NoMatch(p, inner.remaining)

\* ------------------------------------------------------------ generation
FilterUnit_Keep(segs) == segs

RECURSIVE FilterUnit(_)
\* mod.rs:149
FilterUnit(segs) ==
    IF segs = <<>> THEN <<>>
    ELSE IF Head(segs) # PathSegment_Unit
         THEN <<Head(segs)>> \o FilterUnit(Tail(segs))
         ELSE FilterUnit(Tail(segs))

\* One route chaining every child route, instead of one route per child route.
MapChildRoutes_Single(segment_routes, children_routes) ==
    << FilterUnit(segment_routes \o Flatten(children_routes)) >>

\* mod.rs:145-151
MapChildRoutes(segment_routes, children_routes) ==
    [i \in 1..Len(children_routes) |->
        FilterUnit(segment_routes \o children_routes[i])]

RECURSIVE NestedRoute_generate_routes(_)

\* generate_routes of a sibling tuple: the alternatives' routes one after
\* the other; the unit tuple yields one empty route.
Children_generate_routes(children) ==
    IF children = <<>> THEN << <<>> >>
    ELSE Flatten([i \in 1..Len(children) |->
                    NestedRoute_generate_routes(children[i])])

\* mod.rs:138-152
NestedRoute_generate_routes(self) ==
    LET segment_routes == Segments_generate_path(self.segments, <<>>)
        children_routes == Children_generate_routes(self.children)
    IN  MapChildRoutes(segment_routes, children_routes)

\* --------------------------------------------------------------- actions
NoResult == MatchResult(None, <<>>)
NoSiblings == [res |-> None, remaining |-> <<>>, attempts |-> <<>>]

InitCommon ==
    /\ strictLeaf \in BOOLEAN
    /\ path = <<>>
    /\ pc = "idle"
    /\ result = NoResult
    /\ siblings = NoSiblings
    /\ cur = None
    /\ depth = 0
    /\ generated = <<>>

Init == route \in Routes(MaxNodes, MatchSegments) /\ InitCommon

\* A caller matches a path against the route node.
MatchNested ==
    \E p \in Paths :
        /\ pc = "idle"
        /\ path' = p
        /\ result' = NestedRoute_match_nested(route, p, <<>>)
        /\ cur' = IF result'.res.some THEN Some(result'.res.val.match) ELSE None
        /\ depth' = 0
        /\ pc' = "matched"
        /\ UNCHANGED <<route, strictLeaf, siblings, generated>>

\* A caller matches a path against the node's children (the sibling tuple).
MatchChildren ==
    \E p \in Paths :
        /\ pc = "idle"
        /\ path' = p
        /\ siblings' = Children_match_nested(route.children, p, <<>>)
        /\ pc' = "siblings"
        /\ cur' = None
        /\ depth' = 0
        /\ UNCHANGED <<route, strictLeaf, result, generated>>

\* The consumer of a match walks down the chain with into_child.
IntoChild ==
    /\ pc = "matched"
    /\ cur.some
    /\ cur' = into_child(cur.val)
    /\ depth' = depth + 1
    /\ UNCHANGED <<route, strictLeaf, path, pc, result, siblings, generated>>

Next == MatchNested \/ IntoChild

Spec == Init /\ [][Next]_vars

\* The sibling tuples on their own, as the children of an index route.
SiblingInit ==
    /\ route \in {NestedRoute(<<UnitSegment>>, c) :
                    c \in UNION {ChildrenOfSize(n, MatchSegments) :
                                    n \in 0..MaxSiblingNodes}}
    /\ InitCommon

SiblingNext == MatchChildren

SiblingSpec == SiblingInit /\ [][SiblingNext]_vars

GenInit == route \in Routes(MaxGenNodes, GenSegments) /\ InitCommon

GenerateRoutes ==
    /\ pc = "idle"
    /\ generated' = NestedRoute_generate_routes(route)
    /\ pc' = "generated"
    /\ UNCHANGED <<route, strictLeaf, path, result, siblings, cur, depth>>

GenerateChildrenRoutes ==
    /\ pc = "idle"
    /\ generated' = Children_generate_routes(route.children)
    /\ pc' = "generatedChildren"
    /\ UNCHANGED <<route, strictLeaf, path, result, siblings, cur, depth>>

GenNext == GenerateRoutes \/ GenerateChildrenRoutes

GenSpec == GenInit /\ [][GenNext]_vars

\* ---------------------------------------------------------------- claims
\* What the node's own steps yield for the path of the last call, computed
\* apart from the stored result.
OwnTest == Segments_test(route.segments, path)
Inner == Children_match_nested(route.children, OwnTest.val.remaining, <<>>)
Returned == pc = "matched"
Succeeded == pc = "matched" /\ result.res.some
TheMatch == result.res.val.match
EmptyOrSep == {<<>>, <<Sep>>}

\* The matched substrings of a match chain, outermost first.
RECURSIVE ChainMatched(_)
ChainMatched(m) ==
    IF m.kind = "unit" THEN <<>> ELSE as_matched(m) \o ChainMatched(m.child)

\* The ids reported by the levels of a match chain, the leaf's included.
RECURSIVE ChainIds(_)
ChainIds(m) ==
    IF m.kind = "unit" THEN {as_id(m)} ELSE {as_id(m)} \cup ChainIds(m.child)

\* Number of NestedMatch values in a match chain.
RECURSIVE ChainLen(_)
ChainLen(m) == IF m.kind = "unit" THEN 0 ELSE 1 + ChainLen(m.child)

\* At every level of the chain the child's params end the level's params.
RECURSIVE InnerParamsLast(_)
InnerParamsLast(m) ==
    m.kind = "unit" \/
        /\ IsSuffix(to_params(m.child), to_params(m))
        /\ InnerParamsLast(m.child)

\* C1: whenever match_nested returns a match, the remainder returned with
\* it is empty or exactly "/".
C1_RemainderEmptyOrSeparator ==
    Succeeded => result.remaining \in EmptyOrSep

C1_Witness ==
    /\ Succeeded
    /\ route.children # <<>>
    /\ result.remaining = <<Sep>>
    /\ ChainMatched(TheMatch) # <<>>

\* C2: whenever match_nested fails it returns (None, path) with the path it
\* was called with, for each failure cause: the segment test fails, the
\* children return None, or the children match and leave a remainder that
\* is neither empty nor "/".
C2_FailureReturnsInputPath ==
    Returned =>
        /\ ~result.res.some => result = MatchResult(None, path)
        /\ ~OwnTest.some => result = MatchResult(None, path)
        /\ (OwnTest.some /\ ~Inner.res.some) =>
                result = MatchResult(None, path)
        /\ (OwnTest.some /\ Inner.res.some
                /\ Inner.remaining \notin EmptyOrSep) =>
                result = MatchResult(None, path)

\* The third cause, after the node's segments consumed a part of the path.
C2_Witness ==
    /\ Returned
    /\ ~result.res.some
    /\ OwnTest.some
    /\ OwnTest.val.matched # <<>>
    /\ Inner.res.some
    /\ Inner.remaining \notin EmptyOrSep
    /\ Inner.remaining # path

C2_WitnessSegmentFails == Returned /\ path # <<>> /\ ~OwnTest.some

C2_WitnessChildrenFail ==
    /\ Returned
    /\ OwnTest.some
    /\ OwnTest.val.matched # <<>>
    /\ ~Inner.res.some

AltResult(i) == NestedRoute_match_nested(route.children[i], path, <<i>>)

C4_FirstAlternativeWins ==
    (pc = "siblings" /\ route.children # <<>>) =>
        LET at == siblings.attempts
            k == Len(at)
        IN  /\ k \in 1..Len(route.children)
            /\ \A i \in 1..k : at[i] = [alt |-> i, path |-> path]
            /\ \A i \in 1..(k - 1) : ~AltResult(i).res.some
            /\ siblings.res.some =>
                    /\ AltResult(k).res = siblings.res
                    /\ AltResult(k).remaining = siblings.remaining
            /\ ~siblings.res.some =>
                    /\ k = Len(route.children)
                    /\ ~AltResult(k).res.some
                    /\ siblings.remaining = path
            /\ (\E i \in 1..Len(route.children) : AltResult(i).res.some)
                    => siblings.res.some

\* The first alternative matches its segments and fails on the remainder;
\* the second one matches.
C4_Witness ==
    /\ pc = "siblings"
    /\ Len(route.children) = 2
    /\ Len(siblings.attempts) = 2
    /\ siblings.res.some
    /\ LET t == Segments_test(route.children[1].segments, path)
       IN  t.some /\ t.val.matched # <<>> /\ t.val.remaining # path

\* C5: the matched substrings of the chain, concatenated outermost first,
\* are a prefix of the input path, and followed by the returned remainder
\* (empty or "/") they are the whole input path.
C5_ChainCoversInput ==
    Succeeded =>
        /\ IsPrefix(ChainMatched(TheMatch), path)
        /\ ChainMatched(TheMatch) \o result.remaining = path
        /\ result.remaining \in EmptyOrSep

C5_Witness ==
    /\ Succeeded
    /\ ChainLen(TheMatch) >= 2
    /\ as_matched(TheMatch) # <<>>
    /\ as_matched(TheMatch.child) # <<>>

\* C6: the id returned, the id stored in the NestedMatch and the id the
\* children returned are the same, at every level of the chain.
C6_SameIdAtEveryLevel ==
    Succeeded =>
        /\ result.res.val.id = as_id(TheMatch)
        /\ result.res.val.id = Inner.res.val.id
        /\ ChainIds(TheMatch) = {result.res.val.id}

\* A leaf two levels down, reached through a second alternative.
C6_Witness ==
    /\ Succeeded
    /\ ChainLen(TheMatch) >= 2
    /\ Len(result.res.val.id) >= 1
    /\ result.res.val.id[1] = 2

\* C7: generate_routes yields one route per child route, in the children's
\* order; the i-th is the node's own fragments followed by the i-th child
\* route, with every Unit removed.
NotUnit(seg) == seg # PathSegment_Unit

C7_OneRoutePerChildRoute ==
    pc = "generated" =>
        LET own == Segments_generate_path(route.segments, <<>>)
            child == Children_generate_routes(route.children)
        IN  /\ Len(generated) = Len(child)
            /\ \A i \in 1..Len(child) :
                    generated[i] = SelectSeq(own \o child[i], NotUnit)
            /\ \A i \in 1..Len(generated) :
               \A j \in 1..Len(generated[i]) : generated[i][j] # PathSegment_Unit

\* A node with a Unit fragment of its own and two child routes.
C7_Witness ==
    /\ pc = "generated"
    /\ Len(generated) >= 2
    /\ \E i \in 1..Len(route.segments) : route.segments[i] = UnitSegment
    /\ \A i \in 1..Len(generated) : generated[i] # <<>>

\* C8: the number of generated routes.  The products of the children
\* counts down each root-to-leaf path (an empty children set counts 1):
RECURSIVE PathProducts(_)
PathProducts(r) ==
    IF r.children = <<>> THEN {1}
    ELSE {Len(r.children) * q :
            q \in UNION {PathProducts(r.children[i]) :
                            i \in 1..Len(r.children)}}

\* The leaf nodes of a route tree.
RECURSIVE LeafCount(_)
RECURSIVE SumLeaves(_, _)
SumLeaves(children, i) ==
    IF i > Len(children) THEN 0
    ELSE LeafCount(children[i]) + SumLeaves(children, i + 1)
LeafCount(r) ==
    IF r.children = <<>> THEN 1 ELSE SumLeaves(r.children, 1)

\* C8 as stated: generate_routes yields as many routes as the product of
\* the children counts down each path.
C8_Original ==
    pc = "generated" => \A q \in PathProducts(route) : Len(generated) = q

\* C8 amended: generate_routes yields one route per leaf of the tree (the
\* sum over the alternatives); that is the product of the children counts
\* down a path when every path has the same product.
C8_OneRoutePerLeaf ==
    pc = "generated" =>
        /\ Len(generated) = LeafCount(route)
        /\ \A q \in PathProducts(route) :
                PathProducts(route) = {q} => Len(generated) = q

\* Two alternatives, each with one leaf child: two routes.
C8_Witness ==
    /\ pc = "generated"
    /\ Len(route.children) = 2
    /\ \A i \in 1..2 :
            /\ Len(route.children[i].children) = 1
            /\ route.children[i].children[1].children = <<>>
    /\ Len(generated) = 2

\* C9 as stated: into_child of a leaf node's match returns no child; of a
\* non-leaf node's match, the matched descendant.
C9_Original ==
    (pc = "matched" /\ depth = 1) =>
        IF route.children = <<>> THEN ~cur.some
        ELSE cur = Some(Inner.res.val.match)

\* C9 amended: into_child always returns a child: for a leaf node the match
\* of the unit tuple, which has no params, matched nothing and has itself
\* no child; for a non-leaf node the matched descendant.
C9_ChildAlwaysPresent ==
    (pc = "matched" /\ depth = 1) =>
        /\ cur.some
        /\ route.children = <<>> =>
                /\ cur.val.kind = "unit"
                /\ to_params(cur.val) = <<>>
                /\ as_matched(cur.val) = <<>>
                /\ into_child(cur.val) = None
        /\ route.children # <<>> =>
                /\ cur.val.kind = "nested"
                /\ cur = Some(Inner.res.val.match)

C9_Witness ==
    /\ pc = "matched"
    /\ depth = 1
    /\ route.children = <<>>
    /\ path # <<>>
    /\ cur.some

\* C10 as stated: the matched substring followed by the returned remainder
\* is the input path.
C10_Original ==
    Succeeded => as_matched(TheMatch) \o result.remaining = path

\* C10 amended: the matched substring is a prefix and the remainder a
\* suffix of the input path, and what lies between them is what the
\* matched descendants consumed: the two reconstruct the input path exactly
\* when the descendants consumed nothing.
C10_MatchedAndRemainderFrameInput ==
    Succeeded =>
        /\ IsPrefix(as_matched(TheMatch), path)
        /\ IsSuffix(result.remaining, path)
        /\ as_matched(TheMatch) = OwnTest.val.matched
        /\ (as_matched(TheMatch) \o result.remaining = path)
                <=> (ChainMatched(TheMatch.child) = <<>>)

\* The matched child consumes a non-empty part of the path.
C10_Witness ==
    /\ Succeeded
    /\ as_matched(TheMatch) # <<>>
    /\ ChainMatched(TheMatch.child) # <<>>

====
